---- MODULE Spec2Model ----
(***************************************************************************)
(* mcp-exec (src/mcp_exec/main.py): wrap a command-line tool as an MCP     *)
(* server.  The model follows the program from its argument vector to the  *)
(* answers of the served tool calls:                                       *)
(*                                                                         *)
(*   parse_args   -> Usage | ExtractExtraArgs, then                        *)
(*                   ParseSingleTool | ParseMultiTool                      *)
(*   run_server   -> RunServer, then ListTools / CallTool for ever         *)
(*                                                                         *)
(* A Python str is a sequence of one-character strings, so that split,     *)
(* endswith, lstrip and str() are computed and not assumed.  Optional      *)
(* values (None or a value) are sequences of length 0 or 1.                *)
(***************************************************************************)
EXTENDS Integers, Sequences, FiniteSets, TLC

VARIABLES argv, pc, exit, command, rest, extra_args, tools,
          mcp_tools, tool_map, call

vars == <<argv, pc, exit, command, rest, extra_args, tools,
          mcp_tools, tool_map, call>>

----------------------------------------------------------------------------
(* Literals of the source.                                                 *)

KwExtraArgs == <<"-","-","e","x","t","r","a","-","a","r","g","s">>
KwTool == <<"-","-","t","o","o","l">>
KwPosArg == <<"-","-","p","o","s","-","a","r","g">>
KwFlag == <<"-","-","f","l","a","g">>
KwRequiredFlag == <<"-","-","r","e","q","u","i","r","e","d","-","f","l","a","g">>
StrTrue == <<"T","r","u","e">>
StrFalse == <<"F","a","l","s","e">>
MsgUnknownTool == <<"U","n","k","n","o","w","n"," ","t","o","o","l",":"," ">>
MsgStderr == <<"\n","S","T","D","E","R","R",":","\n">>
MsgExitCode == <<"\n","E","x","i","t"," ","c","o","d","e",":"," ">>
MsgNoOutput == <<"(","n","o"," ","o","u","t","p","u","t",")">>
MsgTimedOut == <<"C","o","m","m","a","n","d"," ","t","i","m","e","d"," ","o","u","t">>
MsgError == <<"E","r","r","o","r",":"," ">>

None == <<>>
Some(x) == <<x>>

----------------------------------------------------------------------------
(* Python string primitives used by the source.                            *)

IsSpace(c) == c \in {" ", "\t", "\n"}

RECURSIVE LStripSpace(_)
LStripSpace(s) ==
    IF s = <<>> THEN <<>>
    ELSE IF IsSpace(Head(s)) THEN LStripSpace(Tail(s)) ELSE s

RECURSIVE TakeWord(_)
TakeWord(s) ==
    IF s = <<>> \/ IsSpace(Head(s)) THEN <<>>
    ELSE <<Head(s)>> \o TakeWord(Tail(s))

DropFirst(s, n) == SubSeq(s, n + 1, Len(s))

(* val.split(None, 1): at most two parts; the remainder keeps its trailing *)
(* whitespace.                                                             *)
SplitOnce(val) ==
    LET s == LStripSpace(val)
        h == TakeWord(s)
        r == LStripSpace(DropFirst(s, Len(h)))
    IN IF s = <<>> THEN <<>>
       ELSE IF r = <<>> THEN <<h>> ELSE <<h, r>>

(* val.split(): every whitespace-separated word.                           *)
RECURSIVE SplitAll(_)
SplitAll(val) ==
    LET s == LStripSpace(val)
        h == TakeWord(s)
    IN IF s = <<>> THEN <<>>
       ELSE <<h>> \o SplitAll(DropFirst(s, Len(h)))

EndsWithEq(s) == s # <<>> /\ s[Len(s)] = "="

RECURSIVE LStripDash(_)
LStripDash(s) ==
    IF s = <<>> THEN <<>>
    ELSE IF Head(s) = "-" THEN LStripDash(Tail(s)) ELSE s

----------------------------------------------------------------------------
(* Token parser.  A result carries exc = "none", or the exception raised.  *)

parse_spaced(val) ==
    LET parts == SplitOnce(val)
    IN IF Len(parts) = 1
         THEN [exc |-> "none", name |-> parts[1], description |-> parts[1]]
       ELSE IF Len(parts) = 0
         THEN [exc |-> "IndexError"]
       ELSE [exc |-> "none", name |-> parts[1], description |-> parts[2]]

parse_flag(val) ==
    LET parts == SplitOnce(val)
    IN IF Len(parts) = 0 THEN [exc |-> "IndexError"]
       ELSE LET raw == parts[1]
                desc == IF Len(parts) > 1 THEN parts[2] ELSE raw
                takes_value == EndsWithEq(raw)
                flag_part == IF takes_value THEN SubSeq(raw, 1, Len(raw) - 1)
                             ELSE raw
            IN [exc |-> "none", flag |-> flag_part,
                name |-> LStripDash(flag_part), description |-> desc,
                takes_value |-> takes_value]

PosDecl(p) == [name |-> p.name, description |-> p.description]

FlagDecl(p) == [flag |-> p.flag, name |-> p.name,
                description |-> p.description, takes_value |-> p.takes_value]

----------------------------------------------------------------------------
(* parse_args, step 1: the --extra-args scan.  i is the 1-based index of   *)
(* the source's rest[i].                                                   *)

(* The scan with a later --extra-args replacing the earlier ones.           *)
RECURSIVE ExtractScanOverwrite(_, _, _, _)
ExtractScanOverwrite(r, i, extra, filtered) ==
    IF i > Len(r) THEN [extra_args |-> extra, rest |-> filtered]
    ELSE IF r[i] = KwExtraArgs /\ i < Len(r)
      THEN ExtractScanOverwrite(r, i + 2, SplitAll(r[i + 1]), filtered)
    ELSE ExtractScanOverwrite(r, i + 1, extra, Append(filtered, r[i]))

RECURSIVE ExtractScan(_, _, _, _)
ExtractScan(r, i, extra, filtered) ==
    IF i > Len(r) THEN [extra_args |-> extra, rest |-> filtered]
    ELSE IF r[i] = KwExtraArgs /\ i < Len(r)
      THEN ExtractScan(r, i + 2, extra \o SplitAll(r[i + 1]), filtered)
    ELSE ExtractScan(r, i + 1, extra, Append(filtered, r[i]))

Contains(r, tok) == \E k \in 1..Len(r) : r[k] = tok

----------------------------------------------------------------------------
(* parse_single_tool.                                                      *)

RECURSIVE SingleScan(_, _, _, _, _)
SingleScan(r, i, pos_args, flags, required_flags) ==
    IF i > Len(r)
      THEN [status |-> "ok", pos_args |-> pos_args, flags |-> flags,
            required_flags |-> required_flags]
    ELSE IF r[i] = KwPosArg /\ i < Len(r)
      THEN LET p == parse_spaced(r[i + 1])
           IN IF p.exc # "none" THEN [status |-> "crash", exc |-> p.exc]
              ELSE SingleScan(r, i + 2, Append(pos_args, PosDecl(p)),
                              flags, required_flags)
    ELSE IF r[i] = KwFlag /\ i < Len(r)
      THEN LET p == parse_flag(r[i + 1])
           IN IF p.exc # "none" THEN [status |-> "crash", exc |-> p.exc]
              ELSE SingleScan(r, i + 2, pos_args,
                              Append(flags, FlagDecl(p)), required_flags)
    ELSE IF r[i] = KwRequiredFlag /\ i < Len(r)
      THEN LET p == parse_flag(r[i + 1])
           IN IF p.exc # "none" THEN [status |-> "crash", exc |-> p.exc]
              ELSE SingleScan(r, i + 2, pos_args, flags,
                              Append(required_flags, FlagDecl(p)))
    ELSE SingleScan(r, i + 1, pos_args, flags, required_flags)

parse_single_tool(cmd, r) ==
    IF r = <<>> THEN [status |-> "usage", msg |-> "Error: Missing description"]
    ELSE LET s == SingleScan(Tail(r), 1, <<>>, <<>>, <<>>)
         IN IF s.status # "ok" THEN s
            ELSE [status |-> "ok",
                  tools |-> << [name |-> cmd, subcommand |-> None,
                                description |-> Head(r),
                                pos_args |-> s.pos_args, flags |-> s.flags,
                                required_flags |-> s.required_flags] >>]

----------------------------------------------------------------------------
(* parse_multi_tool.  cur is the source's current_tool: None or Some(tool). *)

NewTool(p) == [name |-> p.name, subcommand |-> Some(p.name),
               description |-> p.description,
               pos_args |-> <<>>, flags |-> <<>>, required_flags |-> <<>>]

(* lines 135-136: a new --tool saves the tool that was open.               *)
SavePrevious(ts, cur) == IF cur # None THEN Append(ts, cur[1]) ELSE ts

(* lines 174-175: the tool still open at the end of the stream joins the   *)
(* list.  The other version forgets it.                                    *)
FinalizeDropped(ts, cur) == ts

Finalize(ts, cur) == IF cur # None THEN Append(ts, cur[1]) ELSE ts

RECURSIVE MultiScan(_, _, _, _)

(* lines 150-152, 157-159, 164-166: a declaration while no tool is open.   *)
(* The other version skips the declaration and scans on.                   *)
DeclBeforeToolSkipped(r, i, ts, cur, msg) == MultiScan(r, i + 2, ts, cur)

DeclBeforeTool(r, i, ts, cur, msg) == [status |-> "usage", msg |-> msg]

MultiScan(r, i, ts, cur) ==
    IF i > Len(r)
      THEN LET all == Finalize(ts, cur)
           IN IF all = <<>>
                THEN [status |-> "usage", msg |-> "Error: No tools defined"]
                ELSE [status |-> "ok", tools |-> all]
    ELSE IF r[i] = KwTool /\ i < Len(r)
      THEN LET saved == SavePrevious(ts, cur)
               p == parse_spaced(r[i + 1])
           IN IF p.exc # "none" THEN [status |-> "crash", exc |-> p.exc]
              ELSE MultiScan(r, i + 2, saved, Some(NewTool(p)))
    ELSE IF r[i] = KwPosArg /\ i < Len(r)
      THEN IF cur = None
             THEN DeclBeforeTool(r, i, ts, cur, "Error: --pos-arg before any --tool")
           ELSE LET p == parse_spaced(r[i + 1])
                IN IF p.exc # "none" THEN [status |-> "crash", exc |-> p.exc]
                   ELSE MultiScan(r, i + 2, ts,
                          Some([cur[1] EXCEPT !.pos_args = Append(@, PosDecl(p))]))
    ELSE IF r[i] = KwFlag /\ i < Len(r)
      THEN IF cur = None
             THEN DeclBeforeTool(r, i, ts, cur, "Error: --flag before any --tool")
           ELSE LET p == parse_flag(r[i + 1])
                IN IF p.exc # "none" THEN [status |-> "crash", exc |-> p.exc]
                   ELSE MultiScan(r, i + 2, ts,
                          Some([cur[1] EXCEPT !.flags = Append(@, FlagDecl(p))]))
    ELSE IF r[i] = KwRequiredFlag /\ i < Len(r)
      THEN IF cur = None
             THEN DeclBeforeTool(r, i, ts, cur,
                                 "Error: --required-flag before any --tool")
           ELSE LET p == parse_flag(r[i + 1])
                IN IF p.exc # "none" THEN [status |-> "crash", exc |-> p.exc]
                   ELSE MultiScan(r, i + 2, ts,
                          Some([cur[1] EXCEPT
                                  !.required_flags = Append(@, FlagDecl(p))]))
    ELSE MultiScan(r, i + 1, ts, cur)

parse_multi_tool(cmd, r) == MultiScan(r, 1, <<>>, None)

----------------------------------------------------------------------------
(* build_mcp_tool.  properties is a dict: a later write to a key replaces  *)
(* the earlier one; required is a list.                                    *)

StringProp(d) == [type |-> "string", description |-> d.description]

FlagProp(d) ==
    IF d.takes_value THEN [type |-> "string", description |-> d.description]
    ELSE [type |-> "boolean", description |-> d.description]

RECURSIVE PutPos(_, _)
PutPos(properties, decls) ==
    IF decls = <<>> THEN properties
    ELSE PutPos((Head(decls).name :> StringProp(Head(decls))) @@ properties,
                Tail(decls))

RECURSIVE PutFlags(_, _)
PutFlags(properties, decls) ==
    IF decls = <<>> THEN properties
    ELSE PutFlags((Head(decls).name :> FlagProp(Head(decls))) @@ properties,
                  Tail(decls))

NamesOf(decls) == [k \in 1..Len(decls) |-> decls[k].name]

(* required with the optional flags listed too.                            *)
RequiredListAll(tool) ==
    NamesOf(tool.pos_args) \o NamesOf(tool.required_flags) \o NamesOf(tool.flags)

RequiredList(tool) == NamesOf(tool.pos_args) \o NamesOf(tool.required_flags)

build_mcp_tool(tool) ==
    [name |-> tool.name,
     description |-> tool.description,
     inputSchema |->
        [type |-> "object",
         properties |-> PutFlags(PutFlags(PutPos(<<>>, tool.pos_args),
                                          tool.required_flags),
                                 tool.flags),
         required |-> RequiredList(tool)]]

(* {t["name"]: t for t in tools}: the last tool of a name is the one kept. *)
ToolMap(ts) ==
    [n \in {ts[k].name : k \in 1..Len(ts)} |->
        ts[CHOOSE k \in 1..Len(ts) :
              /\ ts[k].name = n
              /\ \A j \in (k + 1)..Len(ts) : ts[j].name # n]]

----------------------------------------------------------------------------
(* build_command.  An argument value is a str or a bool.                   *)

StrVal(s) == [t |-> "str", s |-> s]
BoolVal(b) == [t |-> "bool", b |-> b]

Str(v) == IF v.t = "str" THEN v.s ELSE IF v.b THEN StrTrue ELSE StrFalse

Truthy(v) == IF v.t = "str" THEN v.s # <<>> ELSE v.b

(* lines 193-194 *)
RECURSIVE PosLoop(_, _, _)
PosLoop(cmd, decls, params) ==
    IF decls = <<>> THEN [exc |-> "none", cmd |-> cmd]
    ELSE IF Head(decls).name \notin DOMAIN params
      THEN [exc |-> "KeyError", key |-> Head(decls).name]
    ELSE PosLoop(Append(cmd, Str(params[Head(decls).name])), Tail(decls), params)

(* lines 197-201 *)
RECURSIVE ReqLoop(_, _, _)
ReqLoop(cmd, decls, params) ==
    IF decls = <<>> THEN [exc |-> "none", cmd |-> cmd]
    ELSE IF Head(decls).name \notin DOMAIN params
      THEN [exc |-> "KeyError", key |-> Head(decls).name]
    ELSE LET flag == Head(decls)
             val == params[flag.name]
         IN ReqLoop(IF flag.takes_value
                      THEN cmd \o <<flag.flag, Str(val)>>
                      ELSE Append(cmd, flag.flag),
                    Tail(decls), params)

(* The loop without the truthiness test of line 206.                       *)
RECURSIVE OptLoopIfPresent(_, _, _)
OptLoopIfPresent(cmd, decls, params) ==
    IF decls = <<>> THEN cmd
    ELSE LET flag == Head(decls)
             name == flag.name
         IN OptLoopIfPresent(IF name \in DOMAIN params
                               THEN IF flag.takes_value
                                      THEN cmd \o <<flag.flag, Str(params[name])>>
                                      ELSE Append(cmd, flag.flag)
                               ELSE cmd,
                             Tail(decls), params)

(* lines 204-209 *)
RECURSIVE OptLoop(_, _, _)
OptLoop(cmd, decls, params) ==
    IF decls = <<>> THEN cmd
    ELSE LET flag == Head(decls)
             name == flag.name
         IN OptLoop(IF name \in DOMAIN params /\ Truthy(params[name])
                      THEN IF flag.takes_value
                             THEN cmd \o <<flag.flag, Str(params[name])>>
                             ELSE Append(cmd, flag.flag)
                      ELSE cmd,
                    Tail(decls), params)

(* The builder with the extra args put before the optional flags.          *)
build_command_extra_early(base_command, tool, params, extra) ==
    LET c0 == IF tool.subcommand # None /\ tool.subcommand[1] # <<>>
                THEN <<base_command, tool.subcommand[1]>>
                ELSE <<base_command>>
        c1 == PosLoop(c0, tool.pos_args, params)
        c2 == IF c1.exc # "none" THEN c1
              ELSE ReqLoop(c1.cmd, tool.required_flags, params)
    IN IF c2.exc # "none" THEN c2
       ELSE [exc |-> "none",
             cmd |-> OptLoop(c2.cmd \o extra, tool.flags, params)]

build_command(base_command, tool, params, extra) ==
    LET c0 == IF tool.subcommand # None /\ tool.subcommand[1] # <<>>
                THEN <<base_command, tool.subcommand[1]>>
                ELSE <<base_command>>
        c1 == PosLoop(c0, tool.pos_args, params)
        c2 == IF c1.exc # "none" THEN c1
              ELSE ReqLoop(c1.cmd, tool.required_flags, params)
    IN IF c2.exc # "none" THEN c2
       ELSE [exc |-> "none",
             cmd |-> OptLoop(c2.cmd, tool.flags, params) \o extra]

----------------------------------------------------------------------------
(* call_tool.  What subprocess.run does is the environment's choice.       *)

DigitChar(d) ==
    CASE d = 0 -> "0" [] d = 1 -> "1" [] d = 2 -> "2" [] d = 3 -> "3"
      [] d = 4 -> "4" [] d = 5 -> "5" [] d = 6 -> "6" [] d = 7 -> "7"
      [] d = 8 -> "8" [] OTHER -> "9"

RECURSIVE IntStr(_)
IntStr(n) ==
    IF n < 0 THEN <<"-">> \o IntStr(0 - n)
    ELSE IF n < 10 THEN <<DigitChar(n)>>
    ELSE Append(IntStr(n \div 10), DigitChar(n % 10))

Text(s) == [kind |-> "text", text |-> s]

Raised(e) == [kind |-> "raise", exc |-> e]

(* lines 292-297 *)
FormatOutput(r) ==
    LET o1 == r.stdout
        o2 == IF r.stderr # <<>> THEN o1 \o MsgStderr \o r.stderr ELSE o1
        o3 == IF r.returncode # 0 THEN o2 \o MsgExitCode \o IntStr(r.returncode)
              ELSE o2
    IN IF o3 # <<>> THEN o3 ELSE MsgNoOutput

(* lines 285-301 *)
RunResult(outcome) ==
    IF outcome.kind = "completed" THEN Text(FormatOutput(outcome))
    ELSE IF outcome.kind = "TimeoutExpired" THEN Text(MsgTimedOut)
    ELSE Text(MsgError \o outcome.msg)

(* lines 279-283: the answer before the command runs, if there is one.     *)
call_tool_early(map, base_command, extra, name, arguments) ==
    IF name \notin DOMAIN map
      THEN [done |-> TRUE, cmd |-> None, result |-> Text(MsgUnknownTool \o name)]
    ELSE LET b == build_command(base_command, map[name], arguments, extra)
         IN IF b.exc # "none"
              THEN [done |-> TRUE, cmd |-> None, result |-> Raised(b.exc)]
              ELSE [done |-> FALSE, cmd |-> Some(b.cmd), result |-> None]

----------------------------------------------------------------------------
(* Input sets.                                                             *)

MaxTokens == 4

ProgName == <<"m","c","p","-","e","x","e","c">>
Cmd == <<"c">>

TokenPool ==
    { KwExtraArgs, KwTool, KwPosArg, KwFlag, KwRequiredFlag,
      <<>>, <<" ">>, <<"a"," ","d">>, <<"\t","q"," "," ","r"," ">>,
      <<"-","x","="," ","d">>, <<"-","-","x">> }

RECURSIVE SeqsUpTo(_, _)
SeqsUpTo(S, n) ==
    IF n = 0 THEN { <<>> }
    ELSE LET prev == SeqsUpTo(S, n - 1)
         IN prev \cup { Append(s, x) : s \in prev, x \in S }

CompileArgv ==
    { <<ProgName>> } \cup { <<ProgName, Cmd>> \o r : r \in SeqsUpTo(TokenPool, MaxTokens) }

MaxUnits == 3

Units ==
    { << <<"d">> >>,
      <<KwTool, <<"a"," ","d">> >>,
      <<KwPosArg, <<"x"," ","d">> >>,
      <<KwRequiredFlag, <<"-","f">> >>,
      <<KwRequiredFlag, <<"-","-","x","="," ","d">> >>,
      <<KwFlag, <<"-","x","="," ","d">> >>,
      <<KwFlag, <<"-","f">> >>,
      <<KwExtraArgs, <<"q"," ","r">> >> }

RECURSIVE Flatten(_)
Flatten(ss) == IF ss = <<>> THEN <<>> ELSE Head(ss) \o Flatten(Tail(ss))

ServeArgv ==
    { <<ProgName>> } \cup
    { <<ProgName, Cmd>> \o Flatten(us) : us \in SeqsUpTo(Units, MaxUnits) }

CallNames == { Cmd, <<"a">>, <<"z">> }

ParamKeys == { <<"x">>, <<"f">> }

ParamValues == { StrVal(<<>>), StrVal(<<"v">>), BoolVal(TRUE), BoolVal(FALSE) }

Mappings == UNION { [D -> ParamValues] : D \in SUBSET ParamKeys }

ExecOutcomes ==
    { [kind |-> "completed", stdout |-> o, stderr |-> e, returncode |-> c] :
        o \in { <<>>, <<"o">> }, e \in { <<>>, <<"e">> }, c \in { 0, 1 } }
    \cup { [kind |-> "TimeoutExpired"] }
    \cup { [kind |-> "Exception", msg |-> <<"E">>] }

----------------------------------------------------------------------------
(* The program.                                                            *)

InitWith(A) ==
    /\ argv \in A
    /\ pc = "start"
    /\ exit = None
    /\ command = None
    /\ rest = <<>>
    /\ extra_args = <<>>
    /\ tools = <<>>
    /\ mcp_tools = <<>>
    /\ tool_map = <<>>
    /\ call = [op |-> "none"]

(* parse_args, lines 50-53: fewer than two arguments.                      *)
Usage ==
    /\ pc = "start"
    /\ Len(argv) < 2
    /\ pc' = "exit"
    /\ exit' = Some([code |-> 1, kind |-> "usage", msg |-> "Usage"])
    /\ UNCHANGED <<argv, command, rest, extra_args, tools, mcp_tools, tool_map, call>>

(* parse_args, lines 55-70.                                                *)
ExtractExtraArgs ==
    /\ pc = "start"
    /\ Len(argv) >= 2
    /\ LET x == ExtractScan(DropFirst(argv, 2), 1, <<>>, <<>>)
       IN /\ command' = Some(argv[2])
          /\ extra_args' = x.extra_args
          /\ rest' = x.rest
    /\ pc' = "extracted"
    /\ UNCHANGED <<argv, exit, tools, mcp_tools, tool_map, call>>

Finish(res) ==
    /\ IF res.status = "ok"
         THEN /\ tools' = res.tools
              /\ pc' = "compiled"
              /\ exit' = exit
       ELSE IF res.status = "usage"
         THEN /\ tools' = tools
              /\ pc' = "exit"
              /\ exit' = Some([code |-> 1, kind |-> "usage", msg |-> res.msg])
       ELSE /\ tools' = tools
            /\ pc' = "exit"
            /\ exit' = Some([code |-> 1, kind |-> "crash", msg |-> res.exc])
    /\ UNCHANGED <<argv, command, rest, extra_args, mcp_tools, tool_map, call>>

(* parse_args, lines 73-74.                                                *)
ParseMultiTool ==
    /\ pc = "extracted"
    /\ Contains(rest, KwTool)
    /\ Finish(parse_multi_tool(command[1], rest))

(* parse_args, lines 75-76.                                                *)
ParseSingleTool ==
    /\ pc = "extracted"
    /\ ~Contains(rest, KwTool)
    /\ Finish(parse_single_tool(command[1], rest))

Compile == Usage \/ ExtractExtraArgs \/ ParseMultiTool \/ ParseSingleTool

InitCompile == InitWith(CompileArgv \cup ServeArgv)

SpecCompile == InitCompile /\ [][Compile]_vars

(* run_server, lines 270-271.                                              *)
RunServer ==
    /\ pc = "compiled"
    /\ mcp_tools' = [k \in 1..Len(tools) |-> build_mcp_tool(tools[k])]
    /\ tool_map' = ToolMap(tools)
    /\ pc' = "serving"
    /\ UNCHANGED <<argv, exit, command, rest, extra_args, tools, call>>

(* list_tools, lines 273-275.                                              *)
ListTools ==
    /\ pc = "serving"
    /\ call.op = "none"
    /\ call' = [op |-> "list_tools", result |-> mcp_tools]
    /\ UNCHANGED <<argv, pc, exit, command, rest, extra_args, tools,
                   mcp_tools, tool_map>>

(* call_tool, lines 277-301.                                               *)
CallTool ==
    /\ pc = "serving"
    /\ call.op = "none"
    /\ \E name \in CallNames, arguments \in Mappings :
         LET e == call_tool_early(tool_map, command[1], extra_args, name, arguments)
         IN IF e.done
              THEN call' = [op |-> "call_tool", name |-> name,
                            arguments |-> arguments, cmd |-> e.cmd,
                            exec |-> None, result |-> e.result]
              ELSE \E outcome \in ExecOutcomes :
                     call' = [op |-> "call_tool", name |-> name,
                              arguments |-> arguments, cmd |-> e.cmd,
                              exec |-> Some(outcome),
                              result |-> RunResult(outcome)]
    /\ UNCHANGED <<argv, pc, exit, command, rest, extra_args, tools,
                   mcp_tools, tool_map>>

(* server.run, line 304: the answer is written out and the loop waits for  *)
(* the next request.                                                       *)
Respond ==
    /\ pc = "serving"
    /\ call.op # "none"
    /\ call' = [op |-> "none"]
    /\ UNCHANGED <<argv, pc, exit, command, rest, extra_args, tools,
                   mcp_tools, tool_map>>

Next == Usage \/ ExtractExtraArgs \/ ParseMultiTool \/ ParseSingleTool
        \/ RunServer \/ ListTools \/ CallTool \/ Respond

Init == InitWith(ServeArgv)

Spec == Init /\ [][Next]_vars

----------------------------------------------------------------------------
(* Vocabulary of the properties: what a left-to-right scan meets, stated   *)
(* by position and not by running the scan.                                *)

Kth(S, k) == CHOOSE j \in S : Cardinality({m \in S : m <= j}) = k

Ascending(S) == [k \in 1..Cardinality(S) |-> Kth(S, k)]

(* The positions a scan stands on when every keyword of K takes the token  *)
(* after it as its value.                                                  *)
Stops(r, K) ==
    LET cur[i \in 1..Len(r)] ==
          IF i = 1 THEN TRUE
          ELSE \/ cur[i - 1] /\ r[i - 1] \notin K
               \/ i > 2 /\ cur[i - 2] /\ r[i - 2] \in K
    IN {i \in 1..Len(r) : cur[i]}

(* The keyword-value pairs the scan meets: the positions of their keywords. *)
Pairs(r, K) == {i \in Stops(r, K) : r[i] \in K /\ i < Len(r)}

DeclKw == {KwPosArg, KwFlag, KwRequiredFlag}

(* The words of s: maximal runs of non-space characters, in order.         *)
Words(s) ==
    LET starts == {j \in 1..Len(s) :
                     ~IsSpace(s[j]) /\ (j = 1 \/ IsSpace(s[j - 1]))}
        last(b) == CHOOSE e \in b..Len(s) :
                     /\ \A j \in b..e : ~IsSpace(s[j])
                     /\ (e = Len(s) \/ IsSpace(s[e + 1]))
    IN [k \in 1..Cardinality(starts) |->
          SubSeq(s, Kth(starts, k), last(Kth(starts, k)))]

Original == DropFirst(argv, 2)

Parsed == pc \in {"compiled", "serving", "exit"} /\ Len(argv) >= 2

MultiMode == Contains(rest, KwTool)

(* The declarations of keyword kw among the pairs at positions P of r.     *)
DeclsAt(r, P, kw) ==
    LET at == Ascending({i \in P : r[i] = kw})
    IN [k \in 1..Len(at) |->
          IF kw = KwPosArg THEN PosDecl(parse_spaced(r[at[k] + 1]))
          ELSE FlagDecl(parse_flag(r[at[k] + 1]))]

----------------------------------------------------------------------------
(* C8: after step 1 of parse_args, extra_args is the concatenation, in     *)
(* order of occurrence, of the whitespace-split values of every            *)
(* --extra-args VALUE pair, and rest is the original stream without those  *)
(* pairs, every other token kept in its order.                             *)
C8_ExtraArgsAccumulate ==
    (pc # "start" /\ Len(argv) >= 2) =>
      LET occ == Pairs(Original, {KwExtraArgs})
          at == Ascending(occ)
          kept == Ascending((1..Len(Original)) \ (occ \cup {i + 1 : i \in occ}))
      IN /\ extra_args = Flatten([k \in 1..Len(at) |-> Words(Original[at[k] + 1])])
         /\ rest = [k \in 1..Len(kept) |-> Original[kept[k]]]

(* Two occurrences of two words each with another token between them: the  *)
(* extraction is done, four words are held and the other token is kept.    *)
C8_Witness ==
    /\ pc = "extracted"
    /\ Cardinality(Pairs(Original, {KwExtraArgs})) = 2
    /\ Len(Original) = 5
    /\ Original[3] # KwExtraArgs
    /\ Len(extra_args) = 4
    /\ Len(rest) = 1

----------------------------------------------------------------------------
(* C10: parse_spaced and parse_flag never fail, so no value of a           *)
(* declaration can make compilation crash: the compiler ends with a        *)
(* CompiledProgram or a usage error; and each compiled flag has            *)
(* takes_value iff the first word of its raw value ends with "=", flag     *)
(* that word without the "=", name the flag without its leading dashes,    *)
(* and the word as description when the value has no whitespace.           *)
FlagWellFormed(v, d) ==
    LET head == Words(v)[1]
    IN /\ d.takes_value = (head[Len(head)] = "=")
       /\ d.flag = IF d.takes_value THEN SubSeq(head, 1, Len(head) - 1) ELSE head
       /\ \E n \in 0..Len(d.flag) :
            /\ \A j \in 1..n : d.flag[j] = "-"
            /\ d.name = DropFirst(d.flag, n)
            /\ (d.name = <<>> \/ d.name[1] # "-")
       /\ (\A j \in 1..Len(v) : ~IsSpace(v[j])) => d.description = head

ScannedPart == IF MultiMode THEN rest ELSE Tail(rest)

ScannedPairs ==
    Pairs(ScannedPart, IF MultiMode THEN DeclKw \cup {KwTool} ELSE DeclKw)

FlagValues(kw) ==
    LET at == Ascending({i \in ScannedPairs : ScannedPart[i] = kw})
    IN [k \in 1..Len(at) |-> ScannedPart[at[k] + 1]]

FlagsWellFormed(kw, ds) ==
    /\ Len(ds) = Len(FlagValues(kw))
    /\ \A k \in 1..Len(ds) : FlagWellFormed(FlagValues(kw)[k], ds[k])

C10_ParsersNeverFail ==
    /\ pc = "exit" => exit[1].kind = "usage"
    /\ pc \in {"compiled", "serving"} =>
         /\ FlagsWellFormed(KwFlag,
                Flatten([k \in 1..Len(tools) |-> tools[k].flags]))
         /\ FlagsWellFormed(KwRequiredFlag,
                Flatten([k \in 1..Len(tools) |-> tools[k].required_flags]))

----------------------------------------------------------------------------
(* C9: in single-tool mode compilation always succeeds with exactly one    *)
(* tool, named after the command, without subcommand, described by the     *)
(* first token, holding exactly the declarations of the pairs the scan of  *)
(* the remaining tokens meets, in order.                                   *)
SingleExpected ==
    LET r == Tail(rest)
        P == Pairs(r, DeclKw)
    IN << [name |-> command[1], subcommand |-> None, description |-> Head(rest),
           pos_args |-> DeclsAt(r, P, KwPosArg),
           flags |-> DeclsAt(r, P, KwFlag),
           required_flags |-> DeclsAt(r, P, KwRequiredFlag)] >>

C9_SingleToolCompiles ==
    (Parsed /\ ~MultiMode /\ rest # <<>>) =>
      /\ pc # "exit"
      /\ tools = SingleExpected

----------------------------------------------------------------------------
(* C6: in multi-tool mode, when compilation succeeds, tools holds one tool *)
(* per --tool VALUE pair the scan meets, in order, named and described by  *)
(* parse_spaced(VALUE) with subcommand = name, and each declaration pair   *)
(* belongs to the tool of the nearest --tool pair before it.               *)
MultiExpected ==
    LET P == Pairs(rest, DeclKw \cup {KwTool})
        T == Ascending({i \in P : rest[i] = KwTool})
        span(k) == {i \in P : /\ i > T[k]
                              /\ (k < Len(T) => i < T[k + 1])}
    IN [k \in 1..Len(T) |->
          LET p == parse_spaced(rest[T[k] + 1])
          IN [name |-> p.name, subcommand |-> Some(p.name),
              description |-> p.description,
              pos_args |-> DeclsAt(rest, span(k), KwPosArg),
              flags |-> DeclsAt(rest, span(k), KwFlag),
              required_flags |-> DeclsAt(rest, span(k), KwRequiredFlag)]]

C6_MultiToolGrouping ==
    (pc \in {"compiled", "serving"} /\ MultiMode) => tools = MultiExpected

(* Two tools, the first with a positional argument, the second without.    *)
C6_Witness ==
    /\ pc = "compiled"
    /\ MultiMode
    /\ Len(tools) = 2
    /\ Len(tools[1].pos_args) = 1
    /\ tools[2].pos_args = <<>>

----------------------------------------------------------------------------
(* C7: in multi-tool mode a declaration pair met before any --tool pair,   *)
(* or a scan that ends with no tool, ends compilation with a usage error   *)
(* (exit code not 0) and no tools.                                         *)
EarlyDecl ==
    LET P == Pairs(rest, DeclKw \cup {KwTool})
    IN \E i \in P : /\ rest[i] \in DeclKw
                    /\ \A j \in P : j < i => rest[j] # KwTool

NoToolPair == \A i \in Pairs(rest, DeclKw \cup {KwTool}) : rest[i] # KwTool

C7_DeclarationBeforeTool ==
    (Parsed /\ MultiMode /\ (EarlyDecl \/ NoToolPair)) =>
      /\ pc = "exit"
      /\ exit[1].kind = "usage"
      /\ exit[1].code # 0
      /\ tools = <<>>

(* A declaration pair first, a --tool pair after it, and the usage exit.   *)
C7_Witness ==
    /\ pc = "exit"
    /\ MultiMode
    /\ EarlyDecl
    /\ ~NoToolPair
    /\ exit[1].kind = "usage"

----------------------------------------------------------------------------
(* C1: when the mapping holds the name of every positional and of every    *)
(* required flag, the vector built for a call is the base command, the     *)
(* subcommand if set, the positionals' values, the required flags (token,  *)
(* then value iff takes_value), the rendered optional flags, then the      *)
(* extra args, with nothing after them.                                    *)
IsTruthy(v) == v = BoolVal(TRUE) \/ (v.t = "str" /\ Len(v.s) > 0)

HasRequiredKeys(tool, m) ==
    /\ \A k \in 1..Len(tool.pos_args) : tool.pos_args[k].name \in DOMAIN m
    /\ \A k \in 1..Len(tool.required_flags) :
         tool.required_flags[k].name \in DOMAIN m

Rendered(flag, m) ==
    IF flag.takes_value THEN <<flag.flag, Str(m[flag.name])>> ELSE <<flag.flag>>

ExpectedVector(base, tool, m, extra) ==
    <<base>>
    \o (IF tool.subcommand = None THEN <<>> ELSE tool.subcommand)
    \o [k \in 1..Len(tool.pos_args) |-> Str(m[tool.pos_args[k].name])]
    \o Flatten([k \in 1..Len(tool.required_flags) |->
                  Rendered(tool.required_flags[k], m)])
    \o Flatten([k \in 1..Len(tool.flags) |->
                  IF tool.flags[k].name \in DOMAIN m /\ IsTruthy(m[tool.flags[k].name])
                    THEN Rendered(tool.flags[k], m) ELSE <<>>])
    \o extra

KnownCall == call.op = "call_tool" /\ call.name \in DOMAIN tool_map

C1_ArgumentVector ==
    (KnownCall /\ HasRequiredKeys(tool_map[call.name], call.arguments)) =>
      call.cmd = Some(ExpectedVector(command[1], tool_map[call.name],
                                     call.arguments, extra_args))

(* A call of a subcommand tool with a positional and a value-taking        *)
(* required flag, both mapped, whose command was built and run.            *)
C1_Witness ==
    /\ KnownCall
    /\ call.cmd # None
    /\ call.exec # None
    /\ tool_map[call.name].subcommand # None
    /\ Len(tool_map[call.name].pos_args) = 1
    /\ Len(tool_map[call.name].required_flags) = 1
    /\ tool_map[call.name].required_flags[1].takes_value
    /\ Len(call.cmd[1]) = 5

----------------------------------------------------------------------------
(* C2: an optional flag is rendered (token, then value iff takes_value)    *)
(* iff its name is a key of the mapping with a truthy value; otherwise the *)
(* vector is the one built for the tool without that flag declaration.     *)
WithoutFlag(tool, k) ==
    [tool EXCEPT !.flags = SubSeq(@, 1, k - 1) \o SubSeq(@, k + 1, Len(@))]

InsertAt(s, j, ins) == SubSeq(s, 1, j) \o ins \o SubSeq(s, j + 1, Len(s))

C2_OptionalFlag ==
    (KnownCall /\ call.cmd # None) =>
      LET tool == tool_map[call.name]
          m == call.arguments
      IN \A k \in 1..Len(tool.flags) :
           LET flag == tool.flags[k]
               without == build_command(command[1], WithoutFlag(tool, k), m,
                                        extra_args).cmd
               later == Flatten([j \in 1..(Len(tool.flags) - k) |->
                          IF tool.flags[k + j].name \in DOMAIN m
                             /\ IsTruthy(m[tool.flags[k + j].name])
                            THEN Rendered(tool.flags[k + j], m) ELSE <<>>])
           IN IF flag.name \in DOMAIN m /\ IsTruthy(m[flag.name])
                THEN call.cmd[1] =
                       InsertAt(without,
                                Len(without) - Len(extra_args) - Len(later),
                                Rendered(flag, m))
                ELSE call.cmd[1] = without

(* A value-taking optional flag whose key is mapped to boolean false: the  *)
(* command was built and holds neither the flag nor "False".               *)
C2_Witness ==
    /\ KnownCall
    /\ call.cmd # None
    /\ \E k \in 1..Len(tool_map[call.name].flags) :
         LET flag == tool_map[call.name].flags[k]
         IN /\ flag.takes_value
            /\ flag.name \in DOMAIN call.arguments
            /\ call.arguments[flag.name] = BoolVal(FALSE)
            /\ \A j \in 1..Len(call.cmd[1]) :
                 call.cmd[1][j] \notin {flag.flag, StrFalse}

----------------------------------------------------------------------------
(* C3: every call of call_tool returns a text result and never raises: an  *)
(* unknown name gives "Unknown tool: <name>", a timeout "Command timed     *)
(* out", any other failure of the execution a text that starts with        *)
(* "Error: ", and a mapping without a required key a text result too.      *)
StartsWith(s, prefix) ==
    Len(s) >= Len(prefix) /\ SubSeq(s, 1, Len(prefix)) = prefix

C3_CallToolNeverRaises ==
    call.op = "call_tool" =>
      /\ call.result.kind = "text"
      /\ call.name \notin DOMAIN tool_map =>
           call.result.text = MsgUnknownTool \o call.name
      /\ (call.exec # None /\ call.exec[1].kind = "TimeoutExpired") =>
           call.result.text = MsgTimedOut
      /\ (call.exec # None /\ call.exec[1].kind = "Exception") =>
           StartsWith(call.result.text, MsgError)

----------------------------------------------------------------------------
(* C4: no two compiled tools have the same name, so the dispatcher's map   *)
(* has one entry per tool.                                                 *)
C4_UniqueNames ==
    pc = "serving" =>
      /\ \A j, k \in 1..Len(tools) : tools[j].name = tools[k].name => j = k
      /\ Cardinality(DOMAIN tool_map) = Len(tools)

----------------------------------------------------------------------------
(* C5: the schema of every compiled tool lists as required the key of      *)
(* every positional and required flag and of no optional flag, and types   *)
(* each positional's property string and each flag's property string iff   *)
(* takes_value, else boolean.                                              *)
TypeOfFlag(d) == IF d.takes_value THEN "string" ELSE "boolean"

InSeq(x, s) == \E k \in 1..Len(s) : s[k] = x

SchemaAsClaimed(tool, schema) ==
    /\ \A k \in 1..Len(tool.pos_args) :
         /\ InSeq(tool.pos_args[k].name, schema.required)
         /\ schema.properties[tool.pos_args[k].name].type = "string"
    /\ \A k \in 1..Len(tool.required_flags) :
         /\ InSeq(tool.required_flags[k].name, schema.required)
         /\ schema.properties[tool.required_flags[k].name].type
              = TypeOfFlag(tool.required_flags[k])
    /\ \A k \in 1..Len(tool.flags) :
         /\ ~InSeq(tool.flags[k].name, schema.required)
         /\ schema.properties[tool.flags[k].name].type = TypeOfFlag(tool.flags[k])

C5_SchemaAsClaimed ==
    pc = "serving" =>
      \A k \in 1..Len(tools) : SchemaAsClaimed(tools[k], mcp_tools[k].inputSchema)

(* C5, amended: required holds the key of every positional and required    *)
(* flag, and the key of an optional flag only when a positional or a       *)
(* required flag has the same key; each property has the type of the last  *)
(* declaration of its key in the order positionals, required flags,        *)
(* optional flags (string for a positional or a takes_value flag, boolean  *)
(* otherwise), so a declaration whose key no later one shares is typed as  *)
(* claimed.                                                                *)
TypedDecls(tool) ==
    [k \in 1..Len(tool.pos_args) |->
        [name |-> tool.pos_args[k].name, type |-> "string"]]
    \o [k \in 1..Len(tool.required_flags) |->
        [name |-> tool.required_flags[k].name,
         type |-> TypeOfFlag(tool.required_flags[k])]]
    \o [k \in 1..Len(tool.flags) |->
        [name |-> tool.flags[k].name, type |-> TypeOfFlag(tool.flags[k])]]

SchemaLastWriter(tool, schema) ==
    LET ds == TypedDecls(tool)
        nreq == Len(tool.pos_args) + Len(tool.required_flags)
    IN /\ DOMAIN schema.properties = {ds[k].name : k \in 1..Len(ds)}
       /\ \A k \in 1..Len(ds) :
            (\A j \in (k + 1)..Len(ds) : ds[j].name # ds[k].name) =>
              schema.properties[ds[k].name].type = ds[k].type
       /\ \A k \in 1..Len(ds) :
            InSeq(ds[k].name, schema.required)
              <=> \E j \in 1..nreq : ds[j].name = ds[k].name
       /\ Len(schema.required) = nreq

C5_SchemaLastWriter ==
    pc = "serving" =>
      \A k \in 1..Len(tools) : SchemaLastWriter(tools[k], mcp_tools[k].inputSchema)

(* A served tool with a positional and a boolean optional flag of another  *)
(* key: the positional is required and typed string, the flag is typed     *)
(* boolean and is not required.                                            *)
C5_Witness ==
    /\ pc = "serving"
    /\ \E k \in 1..Len(tools) :
         LET schema == mcp_tools[k].inputSchema
         IN /\ Len(tools[k].pos_args) = 1
            /\ Len(tools[k].flags) = 1
            /\ tools[k].flags[1].name # tools[k].pos_args[1].name
            /\ ~tools[k].flags[1].takes_value
            /\ schema.required = <<tools[k].pos_args[1].name>>
            /\ schema.properties[tools[k].pos_args[1].name].type = "string"
            /\ schema.properties[tools[k].flags[1].name].type = "boolean"

====
